---- MODULE Spec2Model ----
(***************************************************************************)
(* Model of adafruit_lc709203f.py: the LC709203F fuel-gauge driver.        *)
(* The driver performs word-sized register reads and writes over I2C,      *)
(* protects every frame with a CRC-8, retries failed transfers and exposes *)
(* typed property accessors over the chip's register map.                  *)
(*                                                                         *)
(* One caller drives the handle.  Every bus transfer is one step of the    *)
(* model, so the retry loops of _read_word and _write_word are walked      *)
(* attempt by attempt with the outcome of each transfer chosen by the bus. *)
(***************************************************************************)
EXTENDS Integers, Sequences, FiniteSets, TLC

----------------------------------------------------------------------------
(* Register map and constants of the module (lines 51-65).                 *)

LC709203F_I2CADDR_DEFAULT == 11
LC709203F_CMD_ICVERSION == 17
LC709203F_CMD_BATTPROF == 18
LC709203F_CMD_POWERMODE == 21
LC709203F_CMD_APA == 11
LC709203F_CMD_INITRSOC == 7
LC709203F_CMD_CELLVOLTAGE == 9
LC709203F_CMD_CELLITE == 15
LC709203F_CMD_CELLTEMPERATURE == 8
LC709203F_CMD_THERMISTORB == 6
LC709203F_CMD_STATUSBIT == 22
LC709203F_CMD_ALARMPERCENT == 19
LC709203F_CMD_ALARMVOLTAGE == 20

LC709203F_I2C_RETRY_COUNT == 10

\* range(3) of the probe loop in __init__.
ProbeAttempts == 3

\* The magic word init_RSOC writes (0xAA55).
RSOC_MAGIC == 43605

\* bytearray(10)
BufLen == 10

Commands ==
    { LC709203F_CMD_ICVERSION, LC709203F_CMD_BATTPROF, LC709203F_CMD_POWERMODE,
      LC709203F_CMD_APA, LC709203F_CMD_INITRSOC, LC709203F_CMD_CELLVOLTAGE,
      LC709203F_CMD_CELLITE, LC709203F_CMD_CELLTEMPERATURE,
      LC709203F_CMD_THERMISTORB, LC709203F_CMD_STATUSBIT,
      LC709203F_CMD_ALARMPERCENT, LC709203F_CMD_ALARMVOLTAGE }

\* PowerMode.add_values: OPERATE = 1, SLEEP = 2.
PowerMode == {1, 2}

\* PackSize.add_values: the eight APA codes.
PackSize == {8, 11, 14, 16, 25, 45, 48, 54}

----------------------------------------------------------------------------
(* Bounds of the exploration.                                              *)

\* Accessor calls made on a constructed handle over a bus that may fail.
MaxCalls == 1

\* Accessor calls made on a constructed handle over a fault-free bus.
MaxCleanCalls == 2

\* Length of the byte sequences handed to _generate_crc.
MaxCrcLen == 3

----------------------------------------------------------------------------
(* Python values.  An int and a bool are kept apart because                *)
(* thermistor_enable tests isinstance(status, bool); a bool used as a      *)
(* number is 0 or 1.  A float is held exactly, as numerator v over         *)
(* denominator d.                                                          *)

PyInt(n) == [t |-> "int", v |-> n, d |-> 1]
PyBool(b) == [t |-> "bool", v |-> b, d |-> 1]
\* The float n / d.
PyFloat(n, d) == [t |-> "float", v |-> n, d |-> d]
None == [t |-> "None", v |-> 0, d |-> 1]

NoErr == [type |-> "none", msg |-> "", attempt |-> 0]
ValueError(m) == [type |-> "ValueError", msg |-> m, attempt |-> 0]
\* attempt is the index of the loop iteration in which the error was raised.
OSError(m, n) == [type |-> "OSError", msg |-> m, attempt |-> n]

NoResult == [kind |-> "none", val |-> None, err |-> NoErr]
Return(v) == [kind |-> "return", val |-> v, err |-> NoErr]
Raise(e) == [kind |-> "raise", val |-> None, err |-> e]

----------------------------------------------------------------------------
(* Bit operations on n-bit operands.                                       *)

RECURSIVE BitXor(_, _, _)
BitXor(a, b, n) ==
    IF n = 0 THEN 0
    ELSE (((a % 2) + (b % 2)) % 2) + 2 * BitXor(a \div 2, b \div 2, n - 1)

RECURSIVE BitOr(_, _, _)
BitOr(a, b, n) ==
    IF n = 0 THEN 0
    ELSE (IF (a % 2) + (b % 2) > 0 THEN 1 ELSE 0) + 2 * BitOr(a \div 2, b \div 2, n - 1)

----------------------------------------------------------------------------
(* _generate_crc (lines 276-288).                                          *)

\* One round of the inner loop, for each value of the accumulator:
\* "if crc & 0x80: crc = (crc << 1) ^ 0x07 else: crc <<= 1", then
\* "crc &= 0xFF".
crc_round ==
    [c \in 0 .. 255 |->
        IF (c \div 128) % 2 = 1
        THEN BitXor(c * 2, 7, 9) % 256
        ELSE (c * 2) % 256]

\* The inner loop "for _ in range(8)": n rounds of shift-and-xor.
RECURSIVE crc_rounds(_, _)
crc_rounds(crc, n) ==
    IF n = 0 THEN crc
    ELSE crc_rounds(crc_round[crc], n - 1)

\* One pass of the outer loop for accumulator c and byte b: "crc ^= byte",
\* then the inner loop.
crc_shifted ==
    [c \in 0 .. 255 |-> [b \in 0 .. 255 |-> crc_rounds(BitXor(c, b, 8), 8)]]

\* The outer loop "for byte in data", from accumulator crc.
RECURSIVE crc_bytes(_, _)
crc_bytes(data, crc) ==
    IF data = <<>> THEN crc
    ELSE crc_bytes(Tail(data), crc_shifted[crc][Head(data)])

\* Slip: the accumulator starts at 0xFF.
_generate_crc_seeded(data) == crc_bytes(data, 255)

_generate_crc(data) == crc_bytes(data, 0)

----------------------------------------------------------------------------
(* The chip on the other end of the bus.  It holds one 16-bit word per     *)
(* command, checks the CRC of a write over its own slave address, and      *)
(* attaches a CRC to every word it returns.  The slave address of the      *)
(* LC709203F is fixed at 0x0B, and that is the address its CRC covers,     *)
(* whatever address the handle reaches it at.                              *)

ChipWriteAddr == LC709203F_I2CADDR_DEFAULT * 2
ChipReadAddr == LC709203F_I2CADDR_DEFAULT * 2 + 1

\* The four bytes the chip clocks out for a word read of command c:
\* data low, data high, CRC, and an idle byte after the CRC.
ChipReadResponse(regs, c) ==
    LET lo == regs[c] % 256
        hi == regs[c] \div 256
    IN  << lo, hi, _generate_crc(<<ChipWriteAddr, c, ChipReadAddr, lo, hi>>), 255 >>

\* The chip's registers after it received the 4-byte write frame f.
ChipReceive(regs, f) ==
    IF f[1] \in Commands /\ f[4] = _generate_crc(<<ChipWriteAddr, f[1], f[2], f[3]>>)
    THEN [regs EXCEPT ![f[1]] = f[2] + 256 * f[3]]
    ELSE regs

----------------------------------------------------------------------------
(* State.                                                                  *)

VARIABLES
    address,  \* the device address the handle was constructed with
    buf,      \* self._buf, bytes 0..9
    chip,     \* the chip's registers, one word per command
    pc,       \* "new" before the handle is constructed, "probe", "write",
              \* "read", "ret" when a transaction came back, "idle" between
              \* calls, "failed" when __init__ raised
    api,      \* the top-level operation in progress or last finished
    stage,    \* how far the operation got: the write of __init__ under way,
              \* or 0 for the guard read and 1 for the write of the
              \* cell_temperature setter
    x,        \* the loop index of the retry loop (or of the probe loop)
    txn,      \* the arguments of the _read_word / _write_word under way
    ret,      \* how the last _read_word / _write_word / validation ended
    result,   \* how the last top-level operation ended
    prev,     \* the top-level operation before this one, and how it ended
    nread,    \* read transfers made since the top-level operation began
    nwrite,   \* write transfers made since the top-level operation began
    sent,     \* the distinct frames transmitted by the _write_word under way
    wlog,     \* the frames of the successful write transfers, in order,
              \* since the top-level operation began
    nxfer,    \* transfers made by the _read_word / _write_word under way
    onlycrc,  \* every transfer of the _read_word under way that failed so far
              \* failed on the CRC, none on the bus
    rx,       \* the bytes the last read transfer delivered, <<>> if it failed
    chip0,    \* the chip's registers when the top-level operation began
    calls,    \* accessor calls made on the handle
    nprobe,   \* probes of the device made since the top-level operation began
    callers,  \* two callers sharing the handle: where each one is in its
              \* _read_word / _write_word and what it holds in its locals
    crc_in,   \* the bytes handed to _generate_crc
    crc_out   \* what _generate_crc returned for them, -1 before any call

vars == << address, buf, chip, pc, api, stage, x, txn, ret, result, prev,
           nread, nwrite, sent, wlog, nxfer, onlycrc, rx, chip0, calls,
           nprobe, callers, crc_in, crc_out >>

\* The variables only the two-caller and the CRC specifications change.
auxVars == << callers, crc_in, crc_out >>

ZeroBuf == [i \in 0 .. BufLen - 1 |-> 0]

\* self._buf[i:j] as a sequence.
Slice(b, i, j) == [k \in 1 .. (j - i) |-> b[i + k - 1]]

NoApi == [name |-> "", kind |-> "", arg |-> None]

\* The two callers before either has called anything.
Callers == {1, 2}
NoCaller == [pc |-> "idle", kind |-> "", command |-> 0, data |-> 0, x |-> 0,
             crc8 |-> 0, tx |-> <<>>, rx |-> <<>>, ret |-> NoResult]
NoCallers == [t \in Callers |-> NoCaller]
NoTxn == [kind |-> "", command |-> 0, data |-> 0]

----------------------------------------------------------------------------
(* Inputs.                                                                 *)

\* Addresses a handle is constructed with: the default and an override.
Addresses == {LC709203F_I2CADDR_DEFAULT, 12}

\* What the chip may hold when the driver starts: its registers keep their
\* values while the cell powers it, so thermistor mode may already be on.
ChipInit ==
    { [c \in Commands |->
         CASE c = LC709203F_CMD_ICVERSION -> 10007
           [] c = LC709203F_CMD_CELLVOLTAGE -> 3700
           [] c = LC709203F_CMD_CELLITE -> 975
           [] c = LC709203F_CMD_CELLTEMPERATURE -> 2981
           [] c = LC709203F_CMD_THERMISTORB -> 3380
           [] c = LC709203F_CMD_STATUSBIT -> s
           [] c = LC709203F_CMD_ALARMPERCENT -> 8
           [] c = LC709203F_CMD_POWERMODE -> 2
           [] OTHER -> 0 ] : s \in {0, 1} }

Getters ==
    { "cell_voltage", "cell_percent", "cell_temperature", "ic_version",
      "power_mode", "battery_profile", "pack_size", "thermistor_bconstant",
      "thermistor_enable", "low_voltage_alarm_percent", "low_voltage_alarm" }

\* The setters that validate (or not) and then write one word.
PlainSetters ==
    { "power_mode", "battery_profile", "pack_size", "thermistor_bconstant",
      "thermistor_enable", "low_voltage_alarm_percent", "low_voltage_alarm" }

\* The properties that have a setter.
Assignable == PlainSetters \cup {"cell_temperature"}

\* The values each setter is tried with, accepted and rejected ones.
SetterArgs(name) ==
    CASE name = "power_mode" -> {PyInt(1), PyInt(2), PyInt(5)}
      [] name = "battery_profile" -> {PyInt(0), PyInt(1), PyInt(2)}
      [] name = "pack_size" -> {PyInt(n) : n \in PackSize \cup {9, 999}}
      [] name = "thermistor_bconstant" -> {PyInt(65535)}
      [] name = "thermistor_enable" -> {PyBool(0), PyBool(1), PyInt(1)}
      [] name = "low_voltage_alarm_percent" ->
            {PyInt(-1), PyInt(0), PyInt(100), PyInt(101), PyInt(150)}
      [] name = "low_voltage_alarm" -> {PyInt(3300)}
      \* 25.0 degrees Celsius
      [] name = "cell_temperature" -> {PyFloat(250, 10)}

\* The values tried on a fault-free bus: those above, values outside 16 bits
\* for the setters that do not validate, and a second temperature, 24.9.
CleanArgs(name) ==
    CASE name = "thermistor_bconstant" ->
            SetterArgs(name) \cup {PyInt(68916), PyInt(-1)}
      [] name = "low_voltage_alarm" ->
            SetterArgs(name) \cup {PyInt(65536), PyInt(-2)}
      [] name = "cell_temperature" -> SetterArgs(name) \cup {PyFloat(249, 10)}
      [] OTHER -> SetterArgs(name)

\* What a read transfer may do: fail with OSError and leave the buffer as it
\* was, deliver the chip's bytes, or deliver them with the CRC byte or a data
\* byte damaged on the wire.
ReadOutcomes == {"error", "ok", "crc_corrupt", "data_corrupt"}

\* What a write transfer may do: fail with OSError before the chip takes the
\* frame, or deliver the frame.
WriteOutcomes == {"error", "ok"}

\* What I2CDevice(i2c_bus, address) may do: find the device, raise the
\* ValueError of a device that does not answer, or let an OSError of the bus
\* through.
ProbeOutcomes == {"ok", "ValueError", "OSError"}

----------------------------------------------------------------------------
(* The property table: command, validation and scaling of each accessor.   *)

\* A Python int or bool used as a number.
IntOf(v) == v.v

\* int(): truncation toward zero of a / b, for b > 0.
TruncDiv(a, b) == IF a >= 0 THEN a \div b ELSE -((-a) \div b)

\* The command each property reads and writes.
CommandOf(name) ==
    CASE name = "cell_voltage" -> LC709203F_CMD_CELLVOLTAGE
      [] name = "cell_percent" -> LC709203F_CMD_CELLITE
      [] name = "cell_temperature" -> LC709203F_CMD_CELLTEMPERATURE
      [] name = "ic_version" -> LC709203F_CMD_ICVERSION
      [] name = "power_mode" -> LC709203F_CMD_POWERMODE
      [] name = "battery_profile" -> LC709203F_CMD_BATTPROF
      [] name = "pack_size" -> LC709203F_CMD_APA
      [] name = "thermistor_bconstant" -> LC709203F_CMD_THERMISTORB
      [] name = "thermistor_enable" -> LC709203F_CMD_STATUSBIT
      [] name = "low_voltage_alarm_percent" -> LC709203F_CMD_ALARMPERCENT
      [] name = "low_voltage_alarm" -> LC709203F_CMD_ALARMVOLTAGE
      [] name = "init_RSOC" -> LC709203F_CMD_INITRSOC

\* CV.is_valid: membership in the value table of the class.
is_valid(cls, value) == IntOf(value) \in cls

\* Slip: no setter validates.
SetterAccepts_any(name, v) == TRUE

\* The test each setter makes before it writes.
SetterAccepts(name, v) ==
    CASE name = "power_mode" -> is_valid(PowerMode, v)
      [] name = "battery_profile" -> IntOf(v) \in {0, 1}
      [] name = "pack_size" -> is_valid(PackSize, v)
      [] name = "thermistor_enable" -> v.t = "bool"
      [] name = "low_voltage_alarm_percent" -> 0 <= IntOf(v) /\ IntOf(v) <= 100
      [] OTHER -> TRUE

\* The ValueError each setter raises.
SetterError(name) ==
    CASE name = "power_mode" -> ValueError("power_mode must be a PowerMode")
      [] name = "battery_profile" -> ValueError("battery_profile must be 0 or 1")
      [] name = "pack_size" -> ValueError("pack_size must be a PackSize")
      [] name = "thermistor_enable" ->
            ValueError("thermistor_enable must be True or False")
      [] name = "low_voltage_alarm_percent" ->
            ValueError("alarm voltage percent must be 0-100")
      [] OTHER -> ValueError("")

\* int(value + 273.15) * 10 for the float value = v.v / v.d degrees Celsius.
TemperatureWord(v) == TruncDiv(v.v * 100 + 27315 * v.d, 100 * v.d) * 10

\* The word a setter hands to _write_word.
SetterData(name, v) ==
    CASE name = "init_RSOC" -> RSOC_MAGIC
      [] name = "cell_temperature" -> TemperatureWord(v)
      [] OTHER -> IntOf(v)

\* Slip: no getter catches OSError.
CatchesOSError_none(name) == FALSE

\* Slip: every getter catches OSError.
CatchesOSError_all(name) == TRUE

\* The getters whose body is wrapped in try / except OSError: return None.
CatchesOSError(name) == name \in {"cell_voltage", "cell_percent", "cell_temperature"}

\* The expression a getter applies to the word _read_word returned.
Scaled(name, raw) ==
    CASE name = "cell_voltage" -> PyFloat(raw, 1000)
      [] name = "cell_percent" -> PyFloat(raw, 10)
      [] name = "cell_temperature" -> PyFloat(raw * 10 - 27315, 100)
      [] OTHER -> PyInt(raw)

\* What a getter hands to its caller when its _read_word ended as r.
GetterResult(name, r) ==
    IF r.kind = "return"
    THEN IF r.val.t = "None" /\ CatchesOSError(name)
         THEN Raise([type |-> "TypeError", msg |-> "", attempt |-> 0])
         ELSE IF r.val.t = "None" THEN r ELSE Return(Scaled(name, IntOf(r.val)))
    ELSE IF r.err.type = "OSError" /\ CatchesOSError(name)
         THEN Return(None)
         ELSE r

\* Slip: the guard of the cell_temperature setter never trips.
Truthy_never(v) == FALSE

\* Truth value of a Python value in "if self.thermistor_enable:".
Truthy(v) == v.t # "None" /\ v.v # 0

\* Slip: init_RSOC is called before the configuration is written.
CtorPlan_rsoc_first ==
    << [name |-> "init_RSOC", arg |-> None],
       [name |-> "power_mode", arg |-> PyInt(1)],
       [name |-> "pack_size", arg |-> PyInt(16)],
       [name |-> "battery_profile", arg |-> PyInt(1)] >>

\* Slip: init_RSOC is called a second time.
CtorPlan_rsoc_twice ==
    << [name |-> "power_mode", arg |-> PyInt(1)],
       [name |-> "pack_size", arg |-> PyInt(16)],
       [name |-> "battery_profile", arg |-> PyInt(1)],
       [name |-> "init_RSOC", arg |-> None],
       [name |-> "init_RSOC", arg |-> None] >>

\* The operations __init__ performs after the probe, in order (147-151).
CtorPlan ==
    << [name |-> "power_mode", arg |-> PyInt(1)],
       [name |-> "pack_size", arg |-> PyInt(16)],
       [name |-> "battery_profile", arg |-> PyInt(1)],
       [name |-> "init_RSOC", arg |-> None] >>

----------------------------------------------------------------------------
(* The transaction executor.                                               *)

\* Slip: the "- 1" is forgotten, so the handler never re-raises.
RetryExhausted_late(i) == i = LC709203F_I2C_RETRY_COUNT

\* Slip: the handler re-raises in the first iteration.
RetryExhausted_first(i) == i = 0

\* "if x == (LC709203F_I2C_RETRY_COUNT - 1)": the handler re-raises.
RetryExhausted(i) == i = LC709203F_I2C_RETRY_COUNT - 1

\* The error a failed bus transfer raises in iteration i.
BusError(i) == OSError("bus", i)

\* Slip: the CRC failure is raised as an error the handler does not catch.
CrcFailure_uncaught(i) ==
    [type |-> "RuntimeError", msg |-> "CRC failure on reading word", attempt |-> i]

\* raise OSError("CRC failure on reading word"), in iteration i.
CrcFailure(i) == OSError("CRC failure on reading word", i)

\* "except OSError as exception" catches e.
Caught(e) == e.type = "OSError"

\* The buffer after the prologue of _read_word (291-293).
ReadHeader(b, command) ==
    LET b0 == [b EXCEPT ![0] = LC709203F_I2CADDR_DEFAULT * 2]
        b1 == [b0 EXCEPT ![1] = command]
    IN  [b1 EXCEPT ![2] = BitOr(b1[0], 1, 8)]

\* Slip: the command byte is not stored, and the frame carries the command
\* the transaction before left in the buffer.
WriteFrame_stale_command(b, command, data) ==
    LET b0 == [b EXCEPT ![0] = LC709203F_I2CADDR_DEFAULT * 2]
        b2 == [b0 EXCEPT ![2] = data % 256]
        b3 == [b2 EXCEPT ![3] = (data \div 256) % 256]
    IN  [b3 EXCEPT ![4] = _generate_crc(Slice(b3, 0, 4))]

\* Slip: the high byte is masked with 0x7F.
WriteFrame_short_mask(b, command, data) ==
    LET b0 == [b EXCEPT ![0] = LC709203F_I2CADDR_DEFAULT * 2]
        b1 == [b0 EXCEPT ![1] = command]
        b2 == [b1 EXCEPT ![2] = data % 256]
        b3 == [b2 EXCEPT ![3] = (data \div 256) % 128]
    IN  [b3 EXCEPT ![4] = _generate_crc(Slice(b3, 0, 4))]

\* Slip: the data bytes are stored high byte first.
WriteFrame_swapped(b, command, data) ==
    LET b0 == [b EXCEPT ![0] = LC709203F_I2CADDR_DEFAULT * 2]
        b1 == [b0 EXCEPT ![1] = command]
        b2 == [b1 EXCEPT ![2] = (data \div 256) % 256]
        b3 == [b2 EXCEPT ![3] = data % 256]
    IN  [b3 EXCEPT ![4] = _generate_crc(Slice(b3, 0, 4))]

\* The buffer after the prologue of _write_word (322-326).
WriteFrame(b, command, data) ==
    LET b0 == [b EXCEPT ![0] = LC709203F_I2CADDR_DEFAULT * 2]
        b1 == [b0 EXCEPT ![1] = command]
        b2 == [b1 EXCEPT ![2] = data % 256]
        b3 == [b2 EXCEPT ![3] = (data \div 256) % 256]
    IN  [b3 EXCEPT ![4] = _generate_crc(Slice(b3, 0, 4))]

\* Slip: the CRC is not compared.
CrcMatches_any(b) == TRUE

\* "crc8 != self._buf[5]" is false.
CrcMatches(b) == _generate_crc(Slice(b, 0, 5)) = b[5]

\* "(self._buf[4] << 8) | self._buf[3]"
ReadValue(b) == b[4] * 256 + b[3]

\* The four bytes a read transfer that did not fail puts into buf[3:7].
Received(o, regs, command) ==
    LET resp == ChipReadResponse(regs, command)
    IN  CASE o = "crc_corrupt" -> [resp EXCEPT ![3] = BitXor(resp[3], 1, 8)]
          [] o = "data_corrupt" -> [resp EXCEPT ![1] = BitXor(resp[1], 1, 8)]
          [] OTHER -> resp

\* write_then_readinto(buf, buf, out_start=1, out_end=2, in_start=3, in_end=7)
ReadInto(b, bytes) ==
    [i \in 0 .. BufLen - 1 |-> IF i \in 3 .. 6 THEN bytes[i - 2] ELSE b[i]]

\* Entry of _read_word: the header is built and the loop starts.
BeginRead(command) ==
    /\ buf' = ReadHeader(buf, command)
    /\ txn' = [kind |-> "read", command |-> command, data |-> 0]
    /\ x' = 0
    /\ pc' = "read"
    /\ sent' = {}
    /\ ret' = NoResult
    /\ nxfer' = 0
    /\ onlycrc' = TRUE
    /\ rx' = <<>>

\* Entry of _write_word: the frame is built and the loop starts.
BeginWrite(command, data) ==
    /\ buf' = WriteFrame(buf, command, data)
    /\ txn' = [kind |-> "write", command |-> command, data |-> data]
    /\ x' = 0
    /\ pc' = "write"
    /\ sent' = {}
    /\ ret' = NoResult
    /\ nxfer' = 0
    /\ onlycrc' = TRUE
    /\ rx' = rx

\* A setter (or init_RSOC) is entered: it validates, then writes.
EnterSetter(name, v) ==
    IF SetterAccepts(name, v)
    THEN BeginWrite(CommandOf(name), SetterData(name, v))
    ELSE /\ ret' = Raise(SetterError(name))
         /\ pc' = "ret"
         /\ txn' = NoTxn
         /\ x' = 0
         /\ sent' = {}
         /\ nxfer' = 0
         /\ onlycrc' = TRUE
         /\ UNCHANGED << buf, rx >>

\* The variables no transaction touches.
callVars == << address, api, stage, result, prev, chip0, calls, nprobe, auxVars >>

\* One iteration of the loop of _read_word (295-316), and line 319 when the
\* loop runs out.
ReadAttempt(o) ==
    /\ pc = "read"
    /\ LET bytes == IF o = "error" THEN <<>> ELSE Received(o, chip, buf[1])
           b1 == IF o = "error" THEN buf ELSE ReadInto(buf, bytes)
           mismatch == o # "error" /\ ~CrcMatches(b1)
           exception == IF o = "error" THEN BusError(x) ELSE CrcFailure(x)
       IN  /\ buf' = b1
           /\ rx' = bytes
           /\ nread' = nread + 1
           /\ nxfer' = nxfer + 1
           /\ onlycrc' = (onlycrc /\ o # "error")
           /\ IF o # "error" /\ ~mismatch
              THEN /\ ret' = Return(PyInt(ReadValue(b1)))
                   /\ pc' = "ret"
                   /\ x' = x
              ELSE IF ~Caught(exception) \/ RetryExhausted(x)
              THEN /\ ret' = Raise(exception)
                   /\ pc' = "ret"
                   /\ x' = x
              ELSE IF x + 1 < LC709203F_I2C_RETRY_COUNT
              THEN /\ x' = x + 1
                   /\ UNCHANGED << pc, ret >>
              ELSE /\ ret' = Return(None)
                   /\ pc' = "ret"
                   /\ x' = x
    /\ UNCHANGED << chip, txn, nwrite, sent, wlog >>
    /\ UNCHANGED callVars

\* One iteration of the loop of _write_word (328-338); a loop that runs out
\* returns None like a successful write.
WriteAttempt(o) ==
    /\ pc = "write"
    /\ LET frame == Slice(buf, 1, 5)
       IN  /\ nwrite' = nwrite + 1
           /\ nxfer' = nxfer + 1
           /\ sent' = sent \cup {frame}
           /\ IF o = "ok"
              THEN /\ chip' = ChipReceive(chip, frame)
                   /\ wlog' = Append(wlog, frame)
                   /\ ret' = Return(None)
                   /\ pc' = "ret"
                   /\ x' = x
              ELSE /\ UNCHANGED << chip, wlog >>
                   /\ IF ~Caught(BusError(x)) \/ RetryExhausted(x)
                      THEN /\ ret' = Raise(BusError(x))
                           /\ pc' = "ret"
                           /\ x' = x
                      ELSE IF x + 1 < LC709203F_I2C_RETRY_COUNT
                      THEN /\ x' = x + 1
                           /\ UNCHANGED << pc, ret >>
                      ELSE /\ ret' = Return(None)
                           /\ pc' = "ret"
                           /\ x' = x
    /\ UNCHANGED << buf, txn, nread, onlycrc, rx >>
    /\ UNCHANGED callVars

----------------------------------------------------------------------------
(* Construction (133-152).                                                 *)

Init ==
    /\ address = LC709203F_I2CADDR_DEFAULT
    /\ buf = ZeroBuf
    /\ chip \in ChipInit
    /\ chip0 = chip
    /\ pc = "new"
    /\ api = NoApi
    /\ stage = 0
    /\ x = 0
    /\ txn = NoTxn
    /\ ret = NoResult
    /\ result = NoResult
    /\ prev = [api |-> NoApi, result |-> NoResult]
    /\ nread = 0
    /\ nwrite = 0
    /\ sent = {}
    /\ wlog = <<>>
    /\ nxfer = 0
    /\ onlycrc = TRUE
    /\ rx = <<>>
    /\ calls = 0
    /\ nprobe = 0
    /\ callers = NoCallers
    /\ crc_in = <<>>
    /\ crc_out = -1

\* The variables of the transaction executor besides pc and ret.
txnVars == << buf, txn, x, sent, nxfer, onlycrc, rx >>

\* LC709203F(i2c_bus, a) is called: the probe loop starts.
Construct(a) ==
    /\ pc = "new"
    /\ address' = a
    /\ api' = [name |-> "__init__", kind |-> "new", arg |-> PyInt(a)]
    /\ prev' = [api |-> api, result |-> result]
    /\ result' = NoResult
    /\ pc' = "probe"
    /\ x' = 0
    /\ stage' = 0
    /\ nread' = 0
    /\ nwrite' = 0
    /\ wlog' = <<>>
    /\ chip0' = chip
    /\ calls' = 0
    /\ nprobe' = 0
    /\ UNCHANGED << buf, chip, txn, ret, sent, nxfer, onlycrc, rx >>
    /\ UNCHANGED auxVars

\* Slip: the probe loop has no handler.
ProbeCaught_none(e) == FALSE

\* "except ValueError as exc" catches e.
ProbeCaught(e) == e.type = "ValueError"

\* One iteration of "for _ in range(3)": I2CDevice(i2c_bus, address) finds
\* the device, and the configuration begins with the power_mode setter, or
\* raises.  A ValueError is kept in value_exc and the loop goes on; when the
\* loop runs out its else clause raises value_exc, the last one kept.  Any
\* other error leaves __init__ at once.
Probe(o) ==
    /\ pc = "probe"
    /\ nprobe' = nprobe + 1
    /\ LET exception == [type |-> o, msg |-> "probe", attempt |-> x]
       IN  IF o = "ok"
           THEN /\ stage' = 1
                /\ EnterSetter(CtorPlan[1].name, CtorPlan[1].arg)
                /\ UNCHANGED result
           ELSE IF ~ProbeCaught(exception)
           THEN /\ result' = Raise(exception)
                /\ pc' = "failed"
                /\ UNCHANGED << txnVars, stage, ret >>
           ELSE IF x + 1 < ProbeAttempts
           THEN /\ x' = x + 1
                /\ UNCHANGED << buf, txn, sent, nxfer, onlycrc, rx, pc, stage, ret, result >>
           ELSE /\ result' = Raise(exception)
                /\ pc' = "failed"
                /\ UNCHANGED << txnVars, stage, ret >>
    /\ UNCHANGED << address, chip, api, prev, nread, nwrite, wlog, chip0, calls >>
    /\ UNCHANGED auxVars

\* A setter called by __init__ (or init_RSOC) came back: the constructor
\* goes on to its next operation, finishes, or lets the error out.
CtorStep ==
    /\ pc = "ret"
    /\ api.name = "__init__"
    /\ IF ret.kind = "raise"
       THEN /\ result' = ret
            /\ pc' = "failed"
            /\ UNCHANGED << txnVars, stage, ret >>
       ELSE IF stage < Len(CtorPlan)
       THEN /\ stage' = stage + 1
            /\ EnterSetter(CtorPlan[stage + 1].name, CtorPlan[stage + 1].arg)
            /\ UNCHANGED result
       ELSE /\ result' = Return(None)
            /\ pc' = "idle"
            /\ UNCHANGED << txnVars, stage, ret >>
    /\ UNCHANGED << address, chip, api, prev, nread, nwrite, wlog, chip0, calls >>
    /\ UNCHANGED << nprobe, auxVars >>

----------------------------------------------------------------------------
(* The accessors (158-273).                                                *)

\* The caller starts the accessor a on the constructed handle.
StartCall(a, limit) ==
    /\ pc = "idle"
    /\ calls < limit
    /\ api' = a
    /\ prev' = [api |-> api, result |-> result]
    /\ result' = NoResult
    /\ nread' = 0
    /\ nwrite' = 0
    /\ wlog' = <<>>
    /\ chip0' = chip
    /\ calls' = calls + 1
    /\ stage' = 0
    /\ nprobe' = 0
    /\ UNCHANGED << address, chip >>
    /\ UNCHANGED auxVars

\* A property is read.
CallGetter(name, limit) ==
    /\ StartCall([name |-> name, kind |-> "get", arg |-> None], limit)
    /\ BeginRead(CommandOf(name))

\* A property other than cell_temperature is assigned v.
CallSetter(name, v, limit) ==
    /\ StartCall([name |-> name, kind |-> "set", arg |-> v], limit)
    /\ EnterSetter(name, v)

\* init_RSOC() is called.
CallInitRSOC(limit) ==
    /\ StartCall([name |-> "init_RSOC", kind |-> "call", arg |-> None], limit)
    /\ EnterSetter("init_RSOC", None)

\* cell_temperature is assigned v: the setter first reads thermistor_enable.
CallSetTemperature(v, limit) ==
    /\ StartCall([name |-> "cell_temperature", kind |-> "set", arg |-> v], limit)
    /\ BeginRead(CommandOf("thermistor_enable"))

\* The _read_word of a getter came back.
GetterReturn ==
    /\ pc = "ret"
    /\ api.kind = "get"
    /\ result' = GetterResult(api.name, ret)
    /\ pc' = "idle"
    /\ UNCHANGED << address, chip, api, stage, ret, prev, nread, nwrite, wlog,
                    chip0, calls >>
    /\ UNCHANGED txnVars
    /\ UNCHANGED << nprobe, auxVars >>

\* The guard read of the cell_temperature setter came back.
TemperatureGuard ==
    /\ pc = "ret"
    /\ api.kind = "set" /\ api.name = "cell_temperature" /\ stage = 0
    /\ IF ret.kind = "raise"
       THEN /\ result' = ret
            /\ pc' = "idle"
            /\ UNCHANGED << txnVars, stage, ret >>
       ELSE IF Truthy(ret.val)
       THEN /\ result' = Raise(ValueError("temperature can only be set in i2c mode"))
            /\ pc' = "idle"
            /\ UNCHANGED << txnVars, stage, ret >>
       ELSE /\ stage' = 1
            /\ BeginWrite(CommandOf("cell_temperature"),
                          SetterData("cell_temperature", api.arg))
            /\ UNCHANGED result
    /\ UNCHANGED << address, chip, api, prev, nread, nwrite, wlog, chip0, calls >>
    /\ UNCHANGED << nprobe, auxVars >>

\* The validation or the _write_word of a setter (or of init_RSOC) came back.
SetterReturn ==
    /\ pc = "ret"
    /\ api.kind \in {"set", "call"}
    /\ ~(api.name = "cell_temperature" /\ stage = 0)
    /\ result' = ret
    /\ pc' = "idle"
    /\ UNCHANGED << address, chip, api, stage, ret, prev, nread, nwrite, wlog,
                    chip0, calls >>
    /\ UNCHANGED txnVars
    /\ UNCHANGED << nprobe, auxVars >>

----------------------------------------------------------------------------
(* Specifications.                                                         *)

\* Every step the caller, the driver and the bus can take, with at most
\* limit accessor calls, the bus outcomes drawn from R, W and P and the
\* values assigned to property name drawn from Args[name].
Step(limit, R, W, P, Args) ==
    \/ \E a \in Addresses : Construct(a)
    \/ \E o \in P : Probe(o)
    \/ CtorStep
    \/ \E name \in Getters : CallGetter(name, limit)
    \/ \E name \in PlainSetters : \E v \in Args[name] : CallSetter(name, v, limit)
    \/ CallInitRSOC(limit)
    \/ \E v \in Args["cell_temperature"] : CallSetTemperature(v, limit)
    \/ \E o \in R : ReadAttempt(o)
    \/ \E o \in W : WriteAttempt(o)
    \/ GetterReturn
    \/ TemperatureGuard
    \/ SetterReturn

\* A bus on which any transfer may fail.
Next ==
    Step(MaxCalls, ReadOutcomes, WriteOutcomes, ProbeOutcomes,
         [name \in Assignable |-> SetterArgs(name)])

Spec == Init /\ [][Next]_vars

\* The steps of the driver and the bus, as apart from the caller's: a probe,
\* a transfer, or the code that runs when a transaction came back.
DriverStep(R, W, P) ==
    \/ \E o \in P : Probe(o)
    \/ CtorStep
    \/ \E o \in R : ReadAttempt(o)
    \/ \E o \in W : WriteAttempt(o)
    \/ GetterReturn
    \/ TemperatureGuard
    \/ SetterReturn

\* A fault-free bus: every transfer succeeds and arrives intact.
NextClean ==
    Step(MaxCleanCalls, {"ok"}, {"ok"}, {"ok"},
         [name \in Assignable |-> CleanArgs(name)])

SpecClean == Init /\ [][NextClean]_vars

----------------------------------------------------------------------------
(* Two callers on one handle (290-338).  Each caller runs _read_word or    *)
(* _write_word statement by statement; its position is the number of the   *)
(* source line it executes next.  self._buf is shared; x, crc8 and the     *)
(* arguments are locals of each caller.  The scope                         *)
(* "with self.i2c_device as i2c" holds the bus lock, so a transfer is one  *)
(* step; the statements before and after it run outside that scope.  The   *)
(* bus is fault-free.                                                       *)

\* The transactions a caller may start.
CallerOps ==
    { [kind |-> "read", command |-> LC709203F_CMD_CELLVOLTAGE, data |-> 0],
      [kind |-> "read", command |-> LC709203F_CMD_CELLITE, data |-> 0],
      [kind |-> "write", command |-> LC709203F_CMD_ALARMVOLTAGE, data |-> 3300] }

\* The variables of the single caller's call in progress.
singleVars ==
    << address, pc, api, stage, x, txn, ret, result, prev, nread, nwrite, sent,
       wlog, nxfer, onlycrc, rx, chip0, calls, nprobe >>

\* Caller t enters _read_word or _write_word on the constructed handle.
TCall(t, op) ==
    /\ pc = "idle"
    /\ callers[t].pc = "idle"
    /\ callers' = [callers EXCEPT ![t] =
                     [NoCaller EXCEPT !.pc = IF op.kind = "read" THEN "291" ELSE "322",
                                      !.kind = op.kind,
                                      !.command = op.command,
                                      !.data = op.data]]
    /\ UNCHANGED << buf, chip, singleVars, crc_in, crc_out >>

\* Caller t executes one of the statements that store a byte in self._buf.
TStore(t) ==
    LET c == callers[t]
    IN  /\ c.pc \in {"291", "292", "293", "322", "323", "324", "325", "326"}
        /\ buf' =
             CASE c.pc \in {"291", "322"} ->
                    [buf EXCEPT ![0] = LC709203F_I2CADDR_DEFAULT * 2]
               [] c.pc \in {"292", "323"} -> [buf EXCEPT ![1] = c.command]
               [] c.pc = "293" -> [buf EXCEPT ![2] = BitOr(buf[0], 1, 8)]
               [] c.pc = "324" -> [buf EXCEPT ![2] = c.data % 256]
               [] c.pc = "325" -> [buf EXCEPT ![3] = (c.data \div 256) % 256]
               [] c.pc = "326" -> [buf EXCEPT ![4] = _generate_crc(Slice(buf, 0, 4))]
        /\ callers' = [callers EXCEPT ![t].pc =
                         CASE c.pc = "291" -> "292"
                           [] c.pc = "292" -> "293"
                           [] c.pc = "293" -> "297"
                           [] c.pc = "322" -> "323"
                           [] c.pc = "323" -> "324"
                           [] c.pc = "324" -> "325"
                           [] c.pc = "325" -> "326"
                           [] c.pc = "326" -> "331"]
        /\ UNCHANGED << chip, singleVars, crc_in, crc_out >>

\* Lines 297-305: the command byte in self._buf[1] goes out and the chip's
\* answer to it comes into self._buf[3:7].
TReadTransfer(t) ==
    /\ callers[t].pc = "297"
    /\ LET bytes == ChipReadResponse(chip, buf[1])
       IN  /\ buf' = ReadInto(buf, bytes)
           /\ callers' = [callers EXCEPT ![t].pc = "307",
                                         ![t].tx = << buf[1] >>,
                                         ![t].rx = bytes]
    /\ UNCHANGED << chip, singleVars, crc_in, crc_out >>

\* Line 307: crc8 = self._generate_crc(self._buf[0:5])
TReadCrc(t) ==
    /\ callers[t].pc = "307"
    /\ callers' = [callers EXCEPT ![t].pc = "308",
                                  ![t].crc8 = _generate_crc(Slice(buf, 0, 5))]
    /\ UNCHANGED << buf, chip, singleVars, crc_in, crc_out >>

\* Lines 308-316: the comparison with self._buf[5], and the handler.
TReadCheck(t) ==
    LET c == callers[t]
    IN  /\ c.pc = "308"
        /\ callers' =
             IF c.crc8 = buf[5]
             THEN [callers EXCEPT ![t].pc = "310"]
             ELSE IF ~Caught(CrcFailure(c.x)) \/ RetryExhausted(c.x)
             THEN [callers EXCEPT ![t].pc = "done",
                                  ![t].ret = Raise(CrcFailure(c.x))]
             ELSE IF c.x + 1 < LC709203F_I2C_RETRY_COUNT
             THEN [callers EXCEPT ![t].pc = "297", ![t].x = c.x + 1]
             ELSE [callers EXCEPT ![t].pc = "done", ![t].ret = Return(None)]
        /\ UNCHANGED << buf, chip, singleVars, crc_in, crc_out >>

\* Line 310: return (self._buf[4] << 8) | self._buf[3]
TReadReturn(t) ==
    /\ callers[t].pc = "310"
    /\ callers' = [callers EXCEPT ![t].pc = "done",
                                  ![t].ret = Return(PyInt(ReadValue(buf)))]
    /\ UNCHANGED << buf, chip, singleVars, crc_in, crc_out >>

\* Lines 330-332: self._buf[1:5] goes out to the chip, and the return.
TWriteTransfer(t) ==
    /\ callers[t].pc = "331"
    /\ LET frame == Slice(buf, 1, 5)
       IN  /\ chip' = ChipReceive(chip, frame)
           /\ callers' = [callers EXCEPT ![t].pc = "done",
                                         ![t].tx = frame,
                                         ![t].ret = Return(None)]
    /\ UNCHANGED << buf, singleVars, crc_in, crc_out >>

\* The handle is constructed over a fault-free bus, then the two callers
\* run, interleaved statement by statement.
NextTwo ==
    \/ \E a \in Addresses : Construct(a)
    \/ Probe("ok")
    \/ CtorStep
    \/ WriteAttempt("ok")
    \/ \E t \in Callers : \E op \in CallerOps : TCall(t, op)
    \/ \E t \in Callers : TStore(t)
    \/ \E t \in Callers : TReadTransfer(t)
    \/ \E t \in Callers : TReadCrc(t)
    \/ \E t \in Callers : TReadCheck(t)
    \/ \E t \in Callers : TReadReturn(t)
    \/ \E t \in Callers : TWriteTransfer(t)

SpecTwo == Init /\ [][NextTwo]_vars

----------------------------------------------------------------------------
(* _generate_crc called on its own (276-288).  The method reads nothing    *)
(* of the handle (pylint: no-self-use), so a call changes only what the    *)
(* caller gets back.                                                       *)

\* The byte values the inputs are made of.
CrcBytes == {0, 1, 7, LC709203F_I2CADDR_DEFAULT * 2, 128, 170, 255}

\* Every sequence of at most MaxCrcLen of them.
CrcInputs == UNION { [1 .. n -> CrcBytes] : n \in 0 .. MaxCrcLen }

\* The caller hands data to _generate_crc of the constructed handle, once
\* in a run.
GenerateCrc(data) ==
    /\ pc = "idle"
    /\ crc_out = -1
    /\ crc_in' = data
    /\ crc_out' = _generate_crc(data)
    /\ UNCHANGED << buf, chip, singleVars, callers >>

\* The handle is constructed over a fault-free bus, each of its four write
\* frames carrying a CRC; then the caller hashes a byte sequence.
NextCrc ==
    \/ \E a \in Addresses : Construct(a)
    \/ Probe("ok")
    \/ CtorStep
    \/ WriteAttempt("ok")
    \/ \E data \in CrcInputs : GenerateCrc(data)

SpecCrc == Init /\ [][NextCrc]_vars

----------------------------------------------------------------------------
(* Properties.                                                             *)

\* C1: _read_word makes at most 10 transfers; while the loop runs every
\* transfer made so far has failed; a read that returns a value does so on
\* the transfer after x failed ones, x <= 9, having made exactly x + 1; a
\* read that raises has made exactly 10 and raises the error of the 10th
\* iteration (index 9), of the kind that iteration failed with.
C1_ReadRetryBound ==
    txn.kind = "read" =>
        /\ nxfer <= 10
        /\ pc = "read" => (nxfer = x /\ x <= 9)
        /\ (pc # "read" /\ ret.kind = "return") =>
              (nxfer = x + 1 /\ x <= 9 /\ ret.val.t = "int")
        /\ (pc # "read" /\ ret.kind = "raise") =>
              /\ nxfer = 10
              /\ ret.err.type = "OSError"
              /\ ret.err.attempt = 9
              /\ ret.err.msg = IF rx = <<>> THEN "bus"
                               ELSE "CRC failure on reading word"

\* Nine transfers failed and the tenth delivered a valid word.
C1_Witness ==
    txn.kind = "read" /\ pc = "ret" /\ ret.kind = "return" /\ x = 9 /\ nxfer = 10

\* C2: a value is returned only from a transfer that delivered bytes whose
\* CRC byte is the CRC-8 of [write address, command, read address, data low,
\* data high], and the value is data low + 256 * data high of those bytes.
C2_ReadAcceptance ==
    (txn.kind = "read" /\ pc # "read" /\ ret.kind = "return") =>
        /\ Len(rx) = 4
        /\ rx[3] = _generate_crc(<< LC709203F_I2CADDR_DEFAULT * 2, txn.command,
                                    LC709203F_I2CADDR_DEFAULT * 2 + 1, rx[1], rx[2] >>)
        /\ ret.val = PyInt(rx[1] + 256 * rx[2])

\* A word is accepted after earlier transfers of the same read were rejected
\* for their CRC.
C2_Witness ==
    /\ txn.kind = "read" /\ pc = "ret" /\ ret.kind = "return"
    /\ x >= 1 /\ onlycrc

\* C3: a transfer that delivers bytes with a wrong CRC is a failed attempt:
\* the loop goes on with one unit of the budget of 10 used, a later valid
\* transfer returns the chip's word, and when all 10 transfers fail on the
\* CRC the CRC failure of the 10th is raised.
C3_CrcMismatchRetried ==
    txn.kind = "read" =>
        /\ nxfer <= 10
        /\ (pc = "read" /\ rx # <<>>) => (x >= 1 /\ nxfer = x)
        /\ (pc # "read" /\ ret.kind = "return") =>
              ret.val = PyInt(chip[txn.command])
        /\ (pc # "read" /\ ret.kind = "raise" /\ (onlycrc \/ rx # <<>>)) =>
              /\ nxfer = 10
              /\ ret.err = [type |-> "OSError",
                            msg |-> "CRC failure on reading word",
                            attempt |-> 9]

\* Ten transfers in a row failed on the CRC and the read raised.
C3_Witness ==
    txn.kind = "read" /\ pc = "ret" /\ ret.kind = "raise" /\ onlycrc /\ nxfer = 10

\* C4: every frame _write_word transmits is the one 4-byte frame built from
\* its arguments; it makes at most 10 transfers, returns on the first that
\* succeeds, and when all 10 fail raises the error of the 10th.
C4_WriteRetryBound ==
    txn.kind = "write" =>
        LET lo == txn.data % 256
            hi == (txn.data \div 256) % 256
            frame == << txn.command, lo, hi,
                        _generate_crc(<< LC709203F_I2CADDR_DEFAULT * 2,
                                         txn.command, lo, hi >>) >>
        IN  /\ \A f \in sent : f = frame
            /\ nxfer <= 10
            /\ pc = "write" => (nxfer = x /\ x <= 9)
            /\ (pc # "write" /\ ret.kind = "return") =>
                  (nxfer = x + 1 /\ wlog # <<>> /\ wlog[Len(wlog)] = frame)
            /\ (pc # "write" /\ ret.kind = "raise") =>
                  (nxfer = 10 /\ ret.err = [type |-> "OSError", msg |-> "bus",
                                            attempt |-> 9])

\* All ten transfers of a write failed and the write raised.
C4_Witness ==
    txn.kind = "write" /\ pc = "ret" /\ ret.kind = "raise" /\ nxfer = 10

\* C5: a setter given a value outside its accepted set raises ValueError
\* with no transfer made and the chip unchanged; given an accepted value it
\* reads nothing, transmits only frames for its own command carrying that
\* value, and ends with exactly one such write delivered, or with the bus
\* error and none delivered.
C5_ValidationBeforeWrite ==
    (api.kind = "set" /\ api.name # "cell_temperature") =>
        LET v == api.arg
            accepted ==
                CASE api.name = "power_mode" -> v.v \in {1, 2}
                  [] api.name = "pack_size" -> v.v \in {8, 11, 14, 16, 25, 45, 48, 54}
                  [] api.name = "battery_profile" -> v.v \in {0, 1}
                  [] api.name = "thermistor_enable" -> v.t = "bool"
                  [] api.name = "low_voltage_alarm_percent" -> v.v \in 0 .. 100
                  [] OTHER -> TRUE
            command ==
                CASE api.name = "power_mode" -> 21
                  [] api.name = "pack_size" -> 11
                  [] api.name = "battery_profile" -> 18
                  [] api.name = "thermistor_enable" -> 22
                  [] api.name = "low_voltage_alarm_percent" -> 19
                  [] api.name = "thermistor_bconstant" -> 6
                  [] api.name = "low_voltage_alarm" -> 20
        IN  IF ~accepted
            THEN /\ pc \in {"ret", "idle"}
                 /\ nread = 0 /\ nwrite = 0 /\ sent = {} /\ chip = chip0
                 /\ pc = "idle" => (result.kind = "raise" /\ result.err.type = "ValueError")
            ELSE /\ nread = 0
                 /\ \A f \in sent : f[1] = command /\ f[2] + 256 * f[3] = v.v
                 /\ Len(wlog) <= 1
                 /\ pc = "idle" =>
                      \/ /\ result.kind = "return"
                         /\ Len(wlog) = 1
                         /\ chip = [chip0 EXCEPT ![command] = v.v]
                      \/ /\ result.kind = "raise" /\ result.err.type = "OSError"
                         /\ wlog = <<>>
                         /\ chip = chip0

\* low_voltage_alarm_percent = 101 was refused.
C5_Witness ==
    /\ pc = "idle"
    /\ api = [name |-> "low_voltage_alarm_percent", kind |-> "set", arg |-> PyInt(101)]
    /\ result.kind = "raise"

\* C6: when all 10 transfers of the read fail, cell_voltage and cell_percent
\* return None and ic_version raises the OSError of the last transfer.
C6_AbsentOnFailure ==
    (pc = "idle" /\ api.kind = "get" /\ nread = 10 /\ ret.kind = "raise") =>
        /\ api.name \in {"cell_voltage", "cell_percent"} => result = Return(None)
        /\ api.name = "ic_version" =>
              (result.kind = "raise" /\ result.err.type = "OSError"
               /\ result.err.attempt = 9)

\* cell_percent returned None on a bus that never delivered a byte: buf[6]
\* is still the zero it was allocated with.
C6_Witness ==
    /\ pc = "idle" /\ api.kind = "get" /\ api.name = "cell_percent"
    /\ nread = 10 /\ rx = <<>> /\ buf[6] = 0
    /\ result = Return(None)

\* C7 as stated: every accessor other than the getters of cell_voltage and
\* cell_percent hands the OSError of an exhausted transaction to its caller,
\* and no other getter returns None.
C7_OnlyTwoSwallow ==
    (pc = "idle" /\ api.kind \in {"get", "set"}
     /\ ~(api.kind = "get" /\ api.name \in {"cell_voltage", "cell_percent"})) =>
        /\ (ret.kind = "raise" /\ ret.err.type = "OSError") => result = ret
        /\ api.kind = "get" => result # Return(None)

\* C7, amended: the getters of cell_voltage, cell_percent and cell_temperature
\* return None when their read is exhausted; every other accessor hands the
\* OSError of an exhausted transaction to its caller, and no other getter
\* returns None.
C7_OnlyThreeSwallow ==
    (pc = "idle" /\ api.kind \in {"get", "set"}) =>
        IF api.kind = "get"
           /\ api.name \in {"cell_voltage", "cell_percent", "cell_temperature"}
        THEN (ret.kind = "raise" /\ ret.err.type = "OSError") => result = Return(None)
        ELSE /\ (ret.kind = "raise" /\ ret.err.type = "OSError") => result = ret
             /\ api.kind = "get" => result # Return(None)

\* The power_mode getter let the error of its exhausted read out.
C7_Witness ==
    /\ pc = "idle" /\ api.kind = "get" /\ api.name = "power_mode"
    /\ nread = 10 /\ result.kind = "raise" /\ result.err.type = "OSError"

\* C8: the cell_temperature setter first reads STATUSBIT and writes nothing
\* while it does; a nonzero word ends it with the ValueError and an exhausted
\* read with the OSError, in both cases with no write transfer made; it
\* transmits only after the read returned 0, only frames for CELLTEMPERATURE,
\* and delivers exactly one when it returns.
C8_TemperatureStateGuard ==
    (api.kind = "set" /\ api.name = "cell_temperature") =>
        /\ stage = 0 =>
              /\ txn = [kind |-> "read", command |-> 22, data |-> 0]
              /\ nwrite = 0 /\ wlog = <<>> /\ chip = chip0
              /\ pc = "idle" =>
                   \/ /\ ret.kind = "return" /\ ret.val.v # 0
                      /\ result.kind = "raise" /\ result.err.type = "ValueError"
                   \/ /\ ret.kind = "raise" /\ ret.err.type = "OSError"
                      /\ nread = 10
                      /\ result = ret
        /\ stage = 1 =>
              /\ Len(rx) = 4 /\ rx[1] + 256 * rx[2] = 0
              /\ \A f \in sent : f[1] = 8
              /\ Len(wlog) <= 1
              /\ (pc = "idle" /\ result.kind = "return") =>
                    (Len(wlog) = 1 /\ wlog[1][1] = 8)

\* The setter found thermistor sensing on and refused.
C8_Witness ==
    /\ pc = "idle" /\ api.kind = "set" /\ api.name = "cell_temperature" /\ stage = 0
    /\ ret.kind = "return" /\ ret.val.v = 1
    /\ result.kind = "raise" /\ result.err.type = "ValueError"
    /\ nwrite = 0

\* C9: on a fault-free bus, a getter called right after the setter of the
\* same property returned for a value v in 0..65535 returns v.
C9_RoundTrip ==
    (/\ pc = "idle" /\ api.kind = "get"
     /\ prev.api.kind = "set" /\ prev.api.name = api.name
     /\ api.name # "cell_temperature"
     /\ prev.result.kind = "return"
     /\ prev.api.arg.v \in 0 .. 65535) =>
        (result.kind = "return" /\ result.val.t = "int"
         /\ result.val.v = prev.api.arg.v)

\* power_mode = SLEEP, then power_mode read back as 2.
C9_Witness ==
    /\ pc = "idle" /\ api.kind = "get" /\ api.name = "power_mode"
    /\ prev.api = [name |-> "power_mode", kind |-> "set", arg |-> PyInt(2)]
    /\ result = Return(PyInt(2))

\* C10: the writes __init__ delivers are, in order, POWERMODE = 1, APA = 0x10,
\* BATTPROF = 1, INITRSOC = 0xAA55; every frame it transmits, delivered or
\* not, is the one that follows those delivered so far; it returns with all
\* four delivered, and a write that exhausts its 10 transfers ends it with
\* the OSError and the later writes never transmitted.
C10_ConstructionOrder ==
    api.name = "__init__" =>
        LET plan == << <<21, 1>>, <<11, 16>>, <<18, 1>>, <<7, 43605>> >>
            Word(f) == << f[1], f[2] + 256 * f[3] >>
            delivered == pc \in {"ret", "idle"} /\ ret.kind = "return"
        IN  /\ Len(wlog) <= 4
            /\ \A i \in 1 .. Len(wlog) : Word(wlog[i]) = plan[i]
            /\ pc \in {"new", "probe"} => (nwrite = 0 /\ sent = {})
            /\ pc \in {"write", "ret", "idle", "failed"} =>
                  \A f \in sent :
                      Word(f) = plan[IF delivered THEN Len(wlog) ELSE Len(wlog) + 1]
            /\ pc = "idle" => (Len(wlog) = 4 /\ result = Return(None))
            /\ (pc = "failed" /\ stage >= 1 /\ result.err.type = "OSError") =>
                  (Len(wlog) < 4 /\ nxfer = 10 /\ result.err.attempt = 9)

\* __init__ returned after at least one of its writes had to be retried.
C10_Witness ==
    /\ pc = "idle" /\ api.name = "__init__" /\ result = Return(None)
    /\ Len(wlog) = 4 /\ nwrite > 4

\* C11 as stated: __init__ probes at most 3 times and never again once a
\* probe succeeded; every failed probe, whatever it raised, is retried, so
\* __init__ fails in the probe loop only after 3 probes, with the error of
\* the 3rd (index 2), and with no write frame transmitted and the chip
\* untouched.
C11_ProbeRetry ==
    api.name = "__init__" =>
        /\ nprobe <= 3
        /\ pc = "probe" => (nprobe = x /\ x <= 2)
        /\ stage >= 1 => (pc # "probe" /\ nprobe >= 1)
        /\ (pc = "failed" /\ stage = 0) =>
              /\ nprobe = 3
              /\ result.kind = "raise" /\ result.err.attempt = 2
              /\ nwrite = 0 /\ sent = {} /\ wlog = <<>> /\ chip = chip0

\* C11, amended: __init__ probes at most 3 times and never again once a
\* probe succeeded; a probe that raises ValueError is retried, and after 3
\* of them __init__ raises the ValueError of the 3rd; a probe that raises
\* anything else (an OSError of the bus) ends __init__ at once with that
\* error; in both cases no write frame is transmitted and the chip is
\* untouched.
C11_ProbeRetryValueError ==
    api.name = "__init__" =>
        /\ nprobe <= 3
        /\ pc = "probe" => (nprobe = x /\ x <= 2)
        /\ stage >= 1 => (pc # "probe" /\ nprobe >= 1)
        /\ (pc = "failed" /\ stage = 0) =>
              /\ result.kind = "raise"
              /\ result.err.attempt = nprobe - 1
              /\ result.err.type = "ValueError" => nprobe = 3
              /\ result.err.type # "ValueError" => nprobe \in 1 .. 3
              /\ nwrite = 0 /\ sent = {} /\ wlog = <<>> /\ chip = chip0

\* Three probes raised ValueError and __init__ raised the third.
C11_Witness ==
    /\ pc = "failed" /\ api.name = "__init__" /\ stage = 0
    /\ nprobe = 3 /\ result.err.type = "ValueError" /\ result.err.attempt = 2

\* C12: with two callers interleaving on one handle, every transfer of a
\* read carries the command of the caller that makes it, every transfer of
\* a write carries the frame built from that caller's command and data, a
\* read returns the word of the bytes the caller's own transfer delivered,
\* accepted on the CRC of those bytes under the caller's own header, and on
\* a fault-free bus no read is refused.
C12_ExclusiveOwnership ==
    \A t \in Callers :
        LET c == callers[t]
            lo == c.data % 256
            hi == (c.data \div 256) % 256
        IN  /\ (c.kind = "read" /\ c.tx # <<>>) => c.tx = << c.command >>
            /\ (c.kind = "write" /\ c.tx # <<>>) =>
                  c.tx = << c.command, lo, hi,
                            _generate_crc(<< LC709203F_I2CADDR_DEFAULT * 2,
                                             c.command, lo, hi >>) >>
            /\ (c.kind = "read" /\ c.pc = "done") =>
                  /\ c.ret.kind = "return"
                  /\ c.ret.val = PyInt(c.rx[1] + 256 * c.rx[2])
                  /\ c.rx[3] = _generate_crc(<< LC709203F_I2CADDR_DEFAULT * 2,
                                                c.command,
                                                LC709203F_I2CADDR_DEFAULT * 2 + 1,
                                                c.rx[1], c.rx[2] >>)

\* C13: for a handle constructed with address A, the CRC byte of every
\* write frame transmitted is the CRC-8 of [A * 2, command, low, high], and
\* a read returns a value only from bytes whose CRC byte is the CRC-8 of
\* [A * 2, command, A * 2 + 1, data low, data high].
C13_AddressInFrame ==
    api.name # "" =>
        /\ txn.kind = "write" =>
              \A f \in sent :
                  f[4] = _generate_crc(<< address * 2, f[1], f[2], f[3] >>)
        /\ (txn.kind = "read" /\ pc # "read" /\ ret.kind = "return") =>
              /\ Len(rx) = 4
              /\ rx[3] = _generate_crc(<< address * 2, txn.command,
                                          address * 2 + 1, rx[1], rx[2] >>)

\* C14: every write transfer carries exactly the 4 bytes [command,
\* value mod 256, value div 256, crc], in that order, for the command and
\* the 16-bit value _write_word was called with, where crc is the CRC-8 of
\* [address * 2, command, value mod 256, value div 256] for the address of
\* the handle; the address byte is not among the bytes transmitted.
C14_WriteFrameLayout ==
    (txn.kind = "write" /\ txn.data \in 0 .. 65535) =>
        \A f \in sent :
            /\ Len(f) = 4
            /\ f[1] = txn.command
            /\ f[2] = txn.data % 256
            /\ f[3] = txn.data \div 256
            /\ f[4] = _generate_crc(<< address * 2, txn.command,
                                       txn.data % 256, txn.data \div 256 >>)

\* C15: when the cell_temperature setter returns for c degrees Celsius,
\* given in tenths of a degree, the word in CELLTEMPERATURE is
\* (c + 273.15) * 10 cut to a whole number of tenths of a kelvin, and the
\* cell_temperature getter called next on a fault-free bus returns a value
\* within 0.1 degree of c.  In hundredths of a degree: c100 is c, and the
\* getter's value is result.val.v over result.val.d = 100.
C15_TemperatureScaling ==
    LET Hundredths(v) == (100 * v.v) \div v.d
        Abs(n) == IF n >= 0 THEN n ELSE -n
    IN  /\ (/\ pc = "idle" /\ api.kind = "set" /\ api.name = "cell_temperature"
            /\ result.kind = "return") =>
               chip[LC709203F_CMD_CELLTEMPERATURE] =
                   (Hundredths(api.arg) + 27315) \div 10
        /\ (/\ pc = "idle" /\ api.kind = "get" /\ api.name = "cell_temperature"
            /\ prev.api.kind = "set" /\ prev.api.name = "cell_temperature"
            /\ prev.result.kind = "return") =>
               /\ result.kind = "return" /\ result.val.t = "float"
               /\ result.val.d = 100
               /\ Abs(result.val.v - Hundredths(prev.api.arg)) <= 10

\* The reference CRC-8: the remainder of the message, taken as a polynomial
\* over GF(2) with the most significant bit of the first byte first and
\* multiplied by x^8, divided by x^8 + x^2 + x + 1 (0x07); the register
\* starts at 0 and nothing is XORed into the result.  One message bit is
\* shifted in per step.
RefBitsOf(data) ==
    [i \in 1 .. 8 * Len(data) |->
        LET byte == data[((i - 1) \div 8) + 1]
            k == 7 - ((i - 1) % 8)
        IN  (byte \div (2 ^ k)) % 2]

RECURSIVE RefDivide(_, _, _)
RefDivide(bits, i, r) ==
    IF i > Len(bits) THEN r
    ELSE LET feedback == ((r \div 128) + bits[i]) % 2
             shifted == (r * 2) % 256
             next == IF feedback = 1 THEN BitXor(shifted, 7, 8) ELSE shifted
         IN  IF next \in 0 .. 255 THEN RefDivide(bits, i + 1, next) ELSE -1

RefCrc(data) == RefDivide(RefBitsOf(data), 1, 0)

C17_Bounds ==
    /\ api.kind = "get" => (nread <= 10 /\ nwrite = 0)
    /\ (api.kind \in {"set", "call"} /\ api.name # "cell_temperature") =>
          (nread = 0 /\ nwrite <= 10)
    /\ (api.kind = "set" /\ api.name = "cell_temperature") =>
          (nread <= 10 /\ nwrite <= 10 /\ nread + nwrite <= 20)
    /\ api.name = "__init__" => (nprobe <= 3 /\ nread = 0 /\ nwrite <= 40)

\* A call is under way.
C17_Busy == pc \in {"probe", "read", "write", "ret"}

\* How far the call under way has come: the probe loop by its index, then
\* 11 positions for each transaction (its loop index, then its return).
C17_Position ==
    CASE pc = "probe" -> x
      [] pc \in {"read", "write"} -> 3 + 11 * stage + x
      [] pc = "ret" -> 3 + 11 * stage + 10
      [] OTHER -> 58

\* C17: every call stays within its budget of transfers; while a call is
\* under way a step of the driver can always be taken, whatever the bus
\* does, and every step taken moves the call forward through at most 58
\* positions: no call blocks and none loops, so every call comes back.
C17_BoundedTermination ==
    /\ []C17_Bounds
    /\ [](C17_Position \in 0 .. 58)
    /\ [](C17_Busy => ENABLED DriverStep(ReadOutcomes, WriteOutcomes, ProbeOutcomes))
    /\ [][C17_Busy => C17_Position' > C17_Position]_vars

\* The cell_temperature setter came back after 10 reads and 10 writes.
C17_Witness ==
    /\ pc = "idle" /\ api.kind = "set" /\ api.name = "cell_temperature"
    /\ nread = 10 /\ nwrite = 10

\* C18: a getter transmits no write frame and leaves every chip register
\* as it was when the getter was called, whether its read succeeds, is
\* retried or fails; a setter and init_RSOC transmit only frames for their
\* own command and change no other register; __init__ changes only the
\* four registers it configures.
C18_ReadsLeaveChip ==
    LET own ==
            CASE api.name = "power_mode" -> {21}
              [] api.name = "pack_size" -> {11}
              [] api.name = "battery_profile" -> {18}
              [] api.name = "thermistor_enable" -> {22}
              [] api.name = "low_voltage_alarm_percent" -> {19}
              [] api.name = "thermistor_bconstant" -> {6}
              [] api.name = "low_voltage_alarm" -> {20}
              [] api.name = "cell_temperature" -> {8}
              [] api.name = "init_RSOC" -> {7}
              [] api.name = "__init__" -> {21, 11, 18, 7}
              [] OTHER -> {}
        changed == {c \in Commands : chip[c] # chip0[c]}
    IN  /\ api.kind = "get" =>
              /\ txn.kind = "read"
              /\ nwrite = 0 /\ sent = {} /\ wlog = <<>>
              /\ chip = chip0
        /\ api.kind \in {"set", "call", "new"} =>
              /\ changed \subseteq own
              /\ txn.kind = "write" => \A f \in sent : f[1] \in own
              /\ \A i \in 1 .. Len(wlog) : wlog[i][1] \in own
        /\ api.kind = "" => chip = chip0

\* A getter returned a value after a failed transfer, the chip as it was.
C18_Witness ==
    /\ pc = "idle" /\ api.kind = "get" /\ nread >= 2
    /\ result.kind = "return" /\ result.val.t # "None"
    /\ chip = chip0

\* C19: thermistor_bconstant and low_voltage_alarm assigned any integer v,
\* also one above 65535 or below 0, return without an error after one write
\* whose frame carries v mod 256 and (v div 256) mod 256; the chip then
\* holds v mod 65536, and the getter called next on a fault-free bus
\* returns v mod 65536.
C19_Truncation ==
    LET unrestricted == {"thermistor_bconstant", "low_voltage_alarm"}
        command(name) == IF name = "thermistor_bconstant" THEN 6 ELSE 20
    IN  /\ (pc = "idle" /\ api.kind = "set" /\ api.name \in unrestricted) =>
              /\ result = Return(None)
              /\ Len(wlog) = 1
              /\ wlog[1][1] = command(api.name)
              /\ wlog[1][2] = api.arg.v % 256
              /\ wlog[1][3] = (api.arg.v \div 256) % 256
              /\ chip[command(api.name)] = api.arg.v % 65536
        /\ (/\ pc = "idle" /\ api.kind = "get" /\ api.name \in unrestricted
            /\ prev.api.kind = "set" /\ prev.api.name = api.name) =>
              result = Return(PyInt(prev.api.arg.v % 65536))

\* thermistor_bconstant = 68916 was read back as 3380.
C19_Witness ==
    /\ pc = "idle" /\ api.kind = "get" /\ api.name = "thermistor_bconstant"
    /\ prev.api = [name |-> "thermistor_bconstant", kind |-> "set",
                   arg |-> PyInt(68916)]
    /\ result = Return(PyInt(3380))

====
